---------------------------- MODULE Spec2Model ----------------------------
(***************************************************************************)
(* A model of the addition tutoring application (src/app.py): the ontology *)
(* base-IRI inference done at start-up, the account handlers, the          *)
(* check-answer handler (parse, evaluate, save, annotate, respond) run by  *)
(* concurrent requests, and the dashboard query.                           *)
(*                                                                         *)
(* Text (form values, IRIs) is a sequence of one-character strings, so     *)
(* that parsing and formatting are computed and not assumed.               *)
(***************************************************************************)
EXTENDS Integers, Sequences, FiniteSets, TLC

(***************************************************************************)
(* Bounds of the model.                                                    *)
(***************************************************************************)
MaxAttempts == 2
MaxBindings == 2

(***************************************************************************)
(* Text helpers.                                                           *)
(***************************************************************************)
DigitChars == <<"0", "1", "2", "3", "4", "5", "6", "7", "8", "9">>

IsDigit(ch) == \E i \in 1..10 : DigitChars[i] = ch

DigitVal(ch) == (CHOOSE i \in 1..10 : DigitChars[i] = ch) - 1

endswith(s, ch) == Len(s) > 0 /\ s[Len(s)] = ch

\* str(n) for a non-negative n: its decimal digits
RECURSIVE NatStr(_)
NatStr(n) == IF n < 10 THEN <<DigitChars[n + 1]>>
             ELSE NatStr(n \div 10) \o <<DigitChars[(n % 10) + 1]>>

\* str(n) of a Python int, as the f-strings of check_answer format it
IntStr(n) == IF n < 0 THEN <<"-">> \o NatStr(0 - n) ELSE NatStr(n)

\* str.strip() of the blanks around a form value (int() ignores them)
RECURSIVE LStrip(_)
LStrip(s) == IF Len(s) > 0 /\ s[1] = " " THEN LStrip(Tail(s)) ELSE s

RECURSIVE RStrip(_)
RStrip(s) == IF Len(s) > 0 /\ s[Len(s)] = " "
             THEN RStrip(SubSeq(s, 1, Len(s) - 1)) ELSE s

\* the digits of an int() literal: digits, single underscores between them
DigitsOk(d) ==
    /\ Len(d) > 0
    /\ IsDigit(d[1])
    /\ IsDigit(d[Len(d)])
    /\ \A i \in 1..Len(d) : IsDigit(d[i]) \/ d[i] = "_"
    /\ \A i \in 1..(Len(d) - 1) : ~(d[i] = "_" /\ d[i + 1] = "_")

RECURSIVE DigitsVal(_, _)
DigitsVal(d, acc) ==
    IF Len(d) = 0 THEN acc
    ELSE IF d[1] = "_" THEN DigitsVal(Tail(d), acc)
    ELSE DigitsVal(Tail(d), 10 * acc + DigitVal(d[1]))

\* int(text): [ok |-> TRUE, val |-> n], or ok = FALSE where int() raises
\* ValueError
ParseInt(text) ==
    LET t == RStrip(LStrip(text))
        signed == Len(t) > 0 /\ t[1] \in {"+", "-"}
        d == IF signed THEN Tail(t) ELSE t
    IN  IF DigitsOk(d)
        THEN [ok |-> TRUE,
              val |-> IF signed /\ t[1] = "-" THEN 0 - DigitsVal(d, 0)
                      ELSE DigitsVal(d, 0)]
        ELSE [ok |-> FALSE, val |-> 0]

(***************************************************************************)
(* OntologyLoader: infer_base_iri.  A graph is its namespace bindings in   *)
(* iteration order, <<prefix, uri>>, and its identifier ("None" when the   *)
(* object has none).  A prefix is a TLA+ string; "None" stands for None.   *)
(***************************************************************************)
None == <<"None">>

DEFAULT_IRI ==
    <<"h", "t", "t", "p", ":", "/", "/", "w", "w", "w", ".", "s", "e", "m",
      "a", "n", "t", "i", "c", "w", "e", "b", ".", "o", "r", "g", "/", "n",
      "i", "t", "e", "s", "h", "/", "o", "n", "t", "o", "l", "o", "g", "i",
      "e", "s", "/", "2", "0", "2", "5", "/", "1", "1", "/", "m", "a", "t",
      "h", "-", "a", "d", "d", "i", "t", "i", "o", "n", "#">>

BasePrefixes == {"", "None", "math-addition"}

\* the delimiter appended whatever the IRI ends in
normalize_hash_always(iri) == iri \o <<"#">>

normalize_hash(iri) == IF endswith(iri, "#") THEN iri ELSE iri \o <<"#">>

RECURSIVE first_base_binding(_)
first_base_binding(ns) ==
    IF Len(ns) = 0 THEN 0
    ELSE IF ns[1][1] \in BasePrefixes THEN 1
    ELSE LET r == first_base_binding(Tail(ns))
         IN  IF r = 0 THEN 0 ELSE r + 1

infer_base_iri(graph) ==
    LET k == first_base_binding(graph.namespaces)
        iri == IF graph.identifier = None THEN <<>> ELSE graph.identifier
    IN  IF k # 0 THEN normalize_hash(graph.namespaces[k][2])
        ELSE IF iri # <<>> THEN normalize_hash(iri)
        ELSE DEFAULT_IRI

(***************************************************************************)
(* SemanticAnnotator: the graph check_answer builds for one attempt.  A    *)
(* term is <<"iri", text>> or <<"lit", lexical form, datatype>>; a graph   *)
(* is a set of triples, as rdflib's Graph.add keeps it.                    *)
(***************************************************************************)
RDF_type ==
    <<"h", "t", "t", "p", ":", "/", "/", "w", "w", "w", ".", "w", "3", ".",
      "o", "r", "g", "/", "1", "9", "9", "9", "/", "0", "2", "/", "2", "2",
      "-", "r", "d", "f", "-", "s", "y", "n", "t", "a", "x", "-", "n", "s",
      "#", "t", "y", "p", "e">>

XSD_integer ==
    <<"h", "t", "t", "p", ":", "/", "/", "w", "w", "w", ".", "w", "3", ".",
      "o", "r", "g", "/", "2", "0", "0", "1", "/", "X", "M", "L", "S", "c",
      "h", "e", "m", "a", "#", "i", "n", "t", "e", "g", "e", "r">>

\* MATH[key]: Namespace.__getitem__ joins the base IRI and the key
MATH(base, key) == <<"iri", base \o key>>

\* Literal(n, datatype=XSD.integer)
Literal(n) == <<"lit", IntStr(n), XSD_integer>>

expr_key(attempt_id) == <<"E", "x", "p", "r", "_">> \o IntStr(attempt_id)

\* the value and the identifier joined with nothing between them
num_key_unseparated(value, attempt_id) ==
    <<"N", "u", "m", "_">> \o IntStr(value) \o IntStr(attempt_id)

num_key(value, attempt_id) ==
    <<"N", "u", "m", "_">> \o IntStr(value) \o <<"_">> \o IntStr(attempt_id)

AdditionExpression ==
    <<"A", "d", "d", "i", "t", "i", "o", "n", "E", "x", "p", "r", "e", "s",
      "s", "i", "o", "n">>

Number == <<"N", "u", "m", "b", "e", "r">>

hasAdded == <<"h", "a", "s", "A", "d", "d", "e", "d">>

hasResult == <<"h", "a", "s", "R", "e", "s", "u", "l", "t">>

hasValue == <<"h", "a", "s", "V", "a", "l", "u", "e">>

\* the graph without the result's type assertion
annotate_untyped_result(base, attempt_id, a, b, student_ans) ==
    LET expr == MATH(base, expr_key(attempt_id))
        num_a == MATH(base, num_key(a, attempt_id))
        num_b == MATH(base, num_key(b, attempt_id))
        num_res == MATH(base, num_key(student_ans, attempt_id))
        type == <<"iri", RDF_type>>
    IN  { <<expr, type, MATH(base, AdditionExpression)>>,
          <<expr, MATH(base, hasAdded), num_a>>,
          <<expr, MATH(base, hasAdded), num_b>>,
          <<expr, MATH(base, hasResult), num_res>>,
          <<num_a, type, MATH(base, Number)>>,
          <<num_b, type, MATH(base, Number)>>,
          <<num_a, MATH(base, hasValue), Literal(a)>>,
          <<num_b, MATH(base, hasValue), Literal(b)>>,
          <<num_res, MATH(base, hasValue), Literal(student_ans)>> }

annotate(base, attempt_id, a, b, student_ans) ==
    LET expr == MATH(base, expr_key(attempt_id))
        num_a == MATH(base, num_key(a, attempt_id))
        num_b == MATH(base, num_key(b, attempt_id))
        num_res == MATH(base, num_key(student_ans, attempt_id))
        type == <<"iri", RDF_type>>
    IN  { <<expr, type, MATH(base, AdditionExpression)>>,
          <<expr, MATH(base, hasAdded), num_a>>,
          <<expr, MATH(base, hasAdded), num_b>>,
          <<expr, MATH(base, hasResult), num_res>>,
          <<num_a, type, MATH(base, Number)>>,
          <<num_b, type, MATH(base, Number)>>,
          <<num_res, type, MATH(base, Number)>>,
          <<num_a, MATH(base, hasValue), Literal(a)>>,
          <<num_b, MATH(base, hasValue), Literal(b)>>,
          <<num_res, MATH(base, hasValue), Literal(student_ans)>> }

(***************************************************************************)
(* AttemptEvaluator: the two assignments of check_answer.                  *)
(***************************************************************************)
\* a sum kept within the range of two single-digit operands
correct_clamped(a, b) ==
    IF a + b > 20 THEN 20 ELSE IF a + b < 0 THEN 0 ELSE a + b

correct_of(a, b) == a + b

is_correct_of(student_ans, correct) == student_ans = correct

(***************************************************************************)
(* The ontology loaded at start-up.  The document itself is not part of    *)
(* the sources; it is taken to bind the default prefix to the ontology's   *)
(* IRI beside the usual owl prefix.                                        *)
(***************************************************************************)
ONTOLOGY ==
    [namespaces |-> << <<"owl", <<"o", "w", "l", "#">> >>,
                       <<"", DEFAULT_IRI>> >>,
     identifier |-> <<"N", "0">>]

(***************************************************************************)
(* The state.                                                              *)
(***************************************************************************)
VARIABLES
    ONTO_IRI,   \* the base IRI inferred at start-up
    users,      \* the user table, in insertion order
    attempts,   \* the attempt table, in commit order
    session,    \* per client: the id of the logged-in user, 0 when anonymous
    pc,         \* per client: where its check-answer request stands
    loc,        \* per client: the locals of its check-answer request
    response,   \* the response most recently sent
    args,       \* the argument of a function applied on its own
    result      \* and what it returned

vars == <<ONTO_IRI, users, attempts, session, pc, loc, response,
          args, result>>

Clients == {"c1", "c2"}

Emails == {"e1", "e2"}

Passwords == {"p1"}

\* what a client may type at the login form
TypedPasswords == Passwords \cup {"bad"}

Keys == {"a", "b", "answer"}

PerPage == 10

\* the forms concurrent clients submit: a right answer, and a field
\* int() refuses
FewForms ==
    {[a |-> <<"0">>, b |-> <<"1">>, answer |-> <<"1">>],
     [a |-> <<"0">>, b |-> <<"x">>, answer |-> <<"1">>]}

\* the forms a single client submits: operands in and out of the range
\* the home page draws from, right and wrong answers, the spellings int()
\* accepts, and fields that are missing or that int() refuses
ManyForms ==
    {[a |-> <<"1", "2">>, b |-> <<"0">>, answer |-> <<"2">>],
     [a |-> <<" ", "1", " ">>, b |-> <<"+", "1">>,
      answer |-> <<"0", "_", "1">>],
     [a |-> <<"-", "1", "1">>, b |-> <<"-", "1", "1">>,
      answer |-> <<"-", "2", "2">>],
     [b |-> <<"0">>, answer |-> <<"0">>],
     [a |-> <<"0">>, answer |-> <<"0">>],
     [a |-> <<"0">>, b |-> <<"0">>],
     [a |-> <<"x">>, b |-> <<"0">>, answer |-> <<"0">>],
     [a |-> <<"0">>, b |-> <<>>, answer |-> <<"0">>],
     [a |-> <<"0">>, b |-> <<"0">>, answer |-> <<"1", ".", "0">>],
     [a |-> <<"_", "1">>, answer |-> <<"0">>]}

NoLocals ==
    [user_id |-> 0, a |-> 0, b |-> 0, student_ans |-> 0,
     correct |-> 0, is_correct |-> FALSE, attempt_id |-> 0, g |-> {}]

NoResponse == [status |-> 0, kind |-> "none", body |-> <<>>]

Redirect(c, to, flash) ==
    [status |-> 302, kind |-> "redirect", body |-> <<to, flash>>]

Page(c, template, data) ==
    [status |-> 200, kind |-> "page", body |-> <<template, data>>]

Json(c, payload) ==
    [status |-> 200, kind |-> "json", body |-> payload]

\* werkzeug answers an HTTPException with its code, Flask any other
\* exception with 500
Failure(c, status, exception) ==
    [status |-> status, kind |-> "error", body |-> exception]

InitMain ==
    /\ ONTO_IRI = infer_base_iri(ONTOLOGY)
    /\ users = <<>>
    /\ attempts = <<>>
    /\ session = [c \in Clients |-> 0]
    /\ pc = [c \in Clients |-> "idle"]
    /\ loc = [c \in Clients |-> NoLocals]
    /\ response = NoResponse

Init == InitMain /\ args = None /\ result = None

(***************************************************************************)
(* The tables.                                                             *)
(***************************************************************************)
Range(s) == {s[i] : i \in 1..Len(s)}

MaxOf(S) == CHOOSE x \in S : \A y \in S : y <= x

\* the largest identifier handed out again
next_id_reused(table) ==
    IF Len(table) = 0 THEN 1 ELSE MaxOf({r.id : r \in Range(table)})

\* an INTEGER PRIMARY KEY left to SQLite: one more than the largest so far
next_id(table) ==
    IF Len(table) = 0 THEN 1 ELSE MaxOf({r.id : r \in Range(table)}) + 1

generate_password_hash(password) == <<"hash", password>>

check_password_hash(pwhash, password) == pwhash = <<"hash", password>>

user_by_email(email) == {u \in Range(users) : u.email = email}

\* @login_required: an anonymous client is sent to the login view
login_required(c) == session[c] # 0

Unauthorized(c) ==
    /\ response' = Redirect(c, "login", "")
    /\ UNCHANGED <<ONTO_IRI, users, attempts, session, pc, loc,
                   args, result>>

(***************************************************************************)
(* The account handlers and the pages.  Each runs in one step.             *)
(***************************************************************************)
\* home: a page with two random operands; they are not kept anywhere
Home(c) ==
    /\ pc[c] = "idle"
    /\ IF login_required(c)
       THEN /\ response' = Page(c, "index.html", <<>>)
            /\ UNCHANGED <<ONTO_IRI, users, attempts, session, pc,
                           loc, args, result>>
       ELSE Unauthorized(c)

Register(c, method, email, password) ==
    /\ pc[c] = "idle"
    /\ IF method = "POST"
       THEN IF user_by_email(email) # {}
            THEN /\ response' =
                        Redirect(c, "register", "Email already registered")
                 /\ UNCHANGED <<users, session>>
            ELSE LET user == [id |-> next_id(users), email |-> email,
                              password_hash |->
                                  generate_password_hash(password)]
                 IN  /\ users' = Append(users, user)
                     /\ session' = [session EXCEPT ![c] = user.id]
                     /\ response' = Redirect(c, "home", "")
       ELSE /\ response' = Page(c, "register.html", <<>>)
            /\ UNCHANGED <<users, session>>
    /\ UNCHANGED <<ONTO_IRI, attempts, pc, loc, args, result>>

Login(c, method, email, password) ==
    /\ pc[c] = "idle"
    /\ IF method = "POST"
       THEN LET found == user_by_email(email)
            IN  IF /\ found # {}
                   /\ \E u \in found :
                          check_password_hash(u.password_hash, password)
                THEN /\ session' =
                            [session EXCEPT
                                 ![c] = (CHOOSE u \in found : TRUE).id]
                     /\ response' = Redirect(c, "home", "")
                ELSE /\ response' =
                            Page(c, "login.html", "Invalid email or password")
                     /\ UNCHANGED session
       ELSE /\ response' = Page(c, "login.html", "")
            /\ UNCHANGED session
    /\ UNCHANGED <<ONTO_IRI, users, attempts, pc, loc, args, result>>

Logout(c) ==
    /\ pc[c] = "idle"
    /\ IF login_required(c)
       THEN /\ session' = [session EXCEPT ![c] = 0]
            /\ response' = Redirect(c, "login", "")
            /\ UNCHANGED <<ONTO_IRI, users, attempts, pc, loc,
                           args, result>>
       ELSE Unauthorized(c)

(***************************************************************************)
(* dashboard: the user's attempts, ORDER BY timestamp DESC and nothing     *)
(* else, so rows of one timestamp come in any order the database picks;    *)
(* then the page's slice.                                                  *)
(***************************************************************************)
Orderings(rows) ==
    {s \in [1..Cardinality(rows) -> rows] :
        \A i, j \in 1..Cardinality(rows) : i # j => s[i] # s[j]}

order_by_timestamp_desc(rows) ==
    {s \in Orderings(rows) :
        \A i, j \in 1..Len(s) : i < j => s[i].timestamp >= s[j].timestamp}

Min(x, y) == IF x < y THEN x ELSE y

\* paginate(page, per_page, error_out=False): a page below 1 is page 1
paginate(ordered, page, per_page) ==
    LET p == IF page < 1 THEN 1 ELSE page
    IN  SubSeq(ordered, (p - 1) * per_page + 1,
               Min(p * per_page, Len(ordered)))

Dashboard(c, page) ==
    /\ pc[c] = "idle"
    /\ IF login_required(c)
       THEN /\ \E ordered \in order_by_timestamp_desc(
                      {r \in Range(attempts) : r.user_id = session[c]}) :
                   response' = Page(c, "dashboard.html",
                                    paginate(ordered, page, PerPage))
            /\ UNCHANGED <<ONTO_IRI, users, attempts, session, pc,
                           loc, args, result>>
       ELSE Unauthorized(c)

(***************************************************************************)
(* check_answer, step by step.                                             *)
(***************************************************************************)
\* the first form field, in the order read, that stops the handler:
\* <<400, ...>> for a missing key, <<500, ...>> for text int() refuses
RECURSIVE first_bad_field(_, _)
first_bad_field(form, keys) ==
    IF Len(keys) = 0 THEN <<>>
    ELSE IF keys[1] \notin DOMAIN form THEN <<400, "BadRequestKeyError">>
    ELSE IF ~ParseInt(form[keys[1]]).ok THEN <<500, "ValueError">>
    ELSE first_bad_field(form, Tail(keys))

\* lines 143-150: @login_required lets the request in or sends it away;
\* the three fields are read and converted, the answer evaluated
CheckBegin(c, form) ==
    /\ pc[c] = "idle"
    /\ IF ~login_required(c) THEN Unauthorized(c)
       ELSE
       /\ LET bad == first_bad_field(form, <<"a", "b", "answer">>)
          IN  IF bad # <<>>
              THEN /\ response' = Failure(c, bad[1], bad[2])
                   /\ UNCHANGED <<pc, loc>>
              ELSE LET a == ParseInt(form["a"]).val
                       b == ParseInt(form["b"]).val
                       student_ans == ParseInt(form["answer"]).val
                       correct == correct_of(a, b)
                   IN  /\ loc' = [loc EXCEPT ![c] =
                                      [NoLocals EXCEPT
                                           !.user_id = session[c],
                                           !.a = a, !.b = b,
                                           !.student_ans = student_ans,
                                           !.correct = correct,
                                           !.is_correct =
                                               is_correct_of(student_ans,
                                                             correct)]]
                       /\ pc' = [pc EXCEPT ![c] = "save"]
                       /\ UNCHANGED response
       /\ UNCHANGED <<ONTO_IRI, users, attempts, session, args,
                      result>>

\* current_timestamp() at an insert: the clock counts whole seconds and
\* does not run backwards, so it reads what the latest row has or more;
\* only the order of timestamps matters to the queries
Timestamps ==
    IF Len(attempts) = 0 THEN {0}
    ELSE {attempts[Len(attempts)].timestamp,
          attempts[Len(attempts)].timestamp + 1}

\* the row with the submitted answer stored as the correct one
new_attempt_confused(c, now) ==
    [id |-> next_id(attempts), user_id |-> loc[c].user_id,
     a |-> loc[c].a, b |-> loc[c].b,
     student_answer |-> loc[c].student_ans,
     correct_answer |-> loc[c].student_ans,
     is_correct |-> loc[c].is_correct,
     timestamp |-> now]

\* the row db.session.add / commit inserts: the id and the timestamp are
\* the database's
new_attempt(c, now) ==
    [id |-> next_id(attempts), user_id |-> loc[c].user_id,
     a |-> loc[c].a, b |-> loc[c].b,
     student_answer |-> loc[c].student_ans,
     correct_answer |-> loc[c].correct,
     is_correct |-> loc[c].is_correct,
     timestamp |-> now]

\* lines 153-161: the insert and its commit, one write transaction
CheckSave(c, now) ==
    /\ pc[c] = "save"
    /\ Len(attempts) < MaxAttempts
    /\ attempts' = Append(attempts, new_attempt(c, now))
    /\ loc' = [loc EXCEPT ![c].attempt_id = new_attempt(c, now).id]
    /\ pc' = [pc EXCEPT ![c] = "annotate"]
    /\ UNCHANGED <<ONTO_IRI, users, session, response, args, result>>

\* the commit raises (the database is locked, an integer does not fit):
\* nothing is inserted and the request ends in a server error
CheckSaveFail(c) ==
    /\ pc[c] = "save"
    /\ response' = Failure(c, 500, "DatabaseError")
    /\ pc' = [pc EXCEPT ![c] = "idle"]
    /\ loc' = [loc EXCEPT ![c] = NoLocals]
    /\ UNCHANGED <<ONTO_IRI, users, attempts, session, args, result>>

\* lines 164-185: the graph of the attempt
CheckAnnotate(c) ==
    /\ pc[c] = "annotate"
    /\ loc' = [loc EXCEPT ![c].g =
                   annotate(ONTO_IRI, loc[c].attempt_id, loc[c].a, loc[c].b,
                            loc[c].student_ans)]
    /\ pc' = [pc EXCEPT ![c] = "serialize"]
    /\ UNCHANGED <<ONTO_IRI, users, attempts, session, response,
                   args, result>>

\* line 193
message(is_correct, a, b, correct) ==
    <<IF is_correct THEN "Correct!" ELSE "Try again.", a, b, correct>>

\* lines 187-194: the graph is serialized and printed, the result returned
CheckRespond(c) ==
    /\ pc[c] = "serialize"
    /\ response' = Json(c, [correct |-> loc[c].is_correct,
                            answer |-> loc[c].correct,
                            message |-> message(loc[c].is_correct, loc[c].a,
                                                loc[c].b, loc[c].correct)])
    /\ pc' = [pc EXCEPT ![c] = "idle"]
    /\ loc' = [loc EXCEPT ![c] = NoLocals]
    /\ UNCHANGED <<ONTO_IRI, users, attempts, session, args, result>>

\* the failure undoing the insert
CheckSerializeFail_rollback(c) ==
    /\ pc[c] = "serialize"
    /\ response' = Failure(c, 500, "AnnotationError")
    /\ LET Others(r) == r.id # loc[c].attempt_id
       IN  attempts' = SelectSeq(attempts, Others)
    /\ pc' = [pc EXCEPT ![c] = "idle"]
    /\ loc' = [loc EXCEPT ![c] = NoLocals]
    /\ UNCHANGED <<ONTO_IRI, users, session, args, result>>

\* lines 187-188 raise (serialize, or print on a closed stream): nothing
\* in check_answer catches it, so Flask answers 500
CheckSerializeFail(c) ==
    /\ pc[c] = "serialize"
    /\ response' = Failure(c, 500, "AnnotationError")
    /\ pc' = [pc EXCEPT ![c] = "idle"]
    /\ loc' = [loc EXCEPT ![c] = NoLocals]
    /\ UNCHANGED <<ONTO_IRI, users, attempts, session, args, result>>

Methods == {"GET", "POST"}

Pages == {0, 1, 2}

\* the requests of the clients in cs, check-answer forms drawn from forms
Requests(cs, forms) ==
    \E c \in cs :
        \/ Home(c)
        \/ \E m \in Methods, e \in Emails, p \in Passwords :
              Register(c, m, e, p)
        \/ \E m \in Methods, e \in Emails, p \in TypedPasswords :
              Login(c, m, e, p)
        \/ Logout(c)
        \/ \E page \in Pages : Dashboard(c, page)
        \/ \E form \in forms : CheckBegin(c, form)
        \/ \E now \in Timestamps : CheckSave(c, now)
        \/ CheckSaveFail(c)
        \/ CheckAnnotate(c)
        \/ CheckRespond(c)
        \/ CheckSerializeFail(c)

\* every client at once
Next == Requests(Clients, FewForms)

Spec == Init /\ [][Next]_vars

\* one client, one request after the other
NextSeq == Requests({"c1"}, ManyForms)

SpecSeq == Init /\ [][NextSeq]_vars

(***************************************************************************)
(* infer_base_iri applied on its own, to every graph of a few bindings.    *)
(***************************************************************************)
Prefixes == {"", "None", "math-addition", "owl"}

Uris == {<<>>, <<"#">>, <<"x", "/">>, <<"x", "#">>, <<"y">>}

Identifiers == {None, <<>>, <<"g">>, <<"g", "#">>}

Bindings ==
    UNION {{ns \in [1..n -> Prefixes \X Uris] :
               \A i, j \in 1..n : i # j => ns[i][1] # ns[j][1]} :
           n \in 0..MaxBindings}

Graphs == [namespaces : Bindings, identifier : Identifiers]

InitIri == InitMain /\ args \in Graphs /\ result = None

ApplyInfer ==
    /\ result = None
    /\ result' = infer_base_iri(args)
    /\ UNCHANGED <<ONTO_IRI, users, attempts, session, pc, loc, response,
                   args>>

SpecIri == InitIri /\ [][ApplyInfer]_vars

(***************************************************************************)
(* annotate applied on its own, to two attempts at a time.                 *)
(***************************************************************************)
AttemptIds == {1, 2, 12}

Values == {-1, 1, 11}

Calls == [attempt_id : AttemptIds, a : Values, b : Values,
          student_ans : Values]

InitAnnotate == InitMain /\ args \in Calls \X Calls /\ result = None

ApplyAnnotate ==
    /\ result = None
    /\ result' = <<annotate(ONTO_IRI, args[1].attempt_id, args[1].a,
                            args[1].b, args[1].student_ans),
                   annotate(ONTO_IRI, args[2].attempt_id, args[2].a,
                            args[2].b, args[2].student_ans)>>
    /\ UNCHANGED <<ONTO_IRI, users, attempts, session, pc, loc, response,
                   args>>

SpecAnnotate == InitAnnotate /\ [][ApplyAnnotate]_vars

(***************************************************************************)
(* The properties.                                                         *)
(***************************************************************************)
IsJson(r) == r.kind = "json"

IsDashboard(r) == r.kind = "page" /\ r.body[1] = "dashboard.html"

\* a check-answer step of client c that ends its request
Ends(c) == pc[c] = "serialize" /\ pc'[c] = "idle"

\* C1: whatever the integers a, b and the submitted answer are, the result
\* a check-answer request returns carries a + b as the answer and, as the
\* flag, whether the submitted answer equals a + b.
C1_ReportsSum ==
    [][\A c \in Clients :
          (Ends(c) /\ IsJson(response')) =>
              /\ response'.body.answer = loc[c].a + loc[c].b
              /\ response'.body.correct =
                     (loc[c].student_ans = loc[c].a + loc[c].b)]_vars

\* a right answer reported for operands beyond the home page's range
C1_Witness ==
    /\ IsJson(response)
    /\ response.body.answer = 0 - 22
    /\ response.body.correct
    /\ \E i \in 1..Len(attempts) : attempts[i].a = 0 - 11

\* the row of client c's request is in the table
Saved(c, table) ==
    \E i \in 1..Len(table) :
        /\ table[i].id = loc[c].attempt_id
        /\ table[i].user_id = loc[c].user_id
        /\ table[i].a = loc[c].a
        /\ table[i].b = loc[c].b
        /\ table[i].student_answer = loc[c].student_ans

\* C2: the attempt is inserted and committed before any annotation step
\* begins, and no annotation step, failing or not, takes it out again.
C2_SavedBeforeAnnotation ==
    [][\A c \in Clients :
          /\ (loc[c].g = {} /\ loc'[c].g # {}) => Saved(c, attempts)
          /\ pc[c] \in {"annotate", "serialize"} =>
                 /\ Saved(c, attempts)
                 /\ \E i \in 1..Len(attempts') :
                        /\ attempts'[i].id = loc[c].attempt_id
                        /\ attempts'[i] \in Range(attempts)]_vars

\* the annotation of a request failed and its attempt is in the table
C2_Witness ==
    /\ response.kind = "error"
    /\ response.body = "AnnotationError"
    /\ Len(attempts) = 1
    /\ \A c \in Clients : pc[c] = "idle"

\* C3: when the annotation fails, the request still returns the result of
\* the evaluation: every request that reaches the annotation ends with the
\* payload, flag, answer and message.
C3_AnnotationFailureNotPropagated ==
    [][\A c \in Clients :
          Ends(c) =>
              response' =
                  Json(c, [correct |-> loc[c].is_correct,
                           answer |-> loc[c].correct,
                           message |-> message(loc[c].is_correct, loc[c].a,
                                               loc[c].b, loc[c].correct)])
      ]_vars

WellFormed(r) ==
    /\ r.correct_answer = r.a + r.b
    /\ r.is_correct = (r.student_answer = r.correct_answer)

\* C4: every stored attempt has correct_answer = a + b and is_correct =
\* (student_answer = correct_answer), and no request changes or removes a
\* stored attempt: the table only grows at its end.
C4_StoredAttemptsKept ==
    [][/\ \A i \in 1..Len(attempts') : WellFormed(attempts'[i])
       /\ Len(attempts') >= Len(attempts)
       /\ \A i \in 1..Len(attempts) : attempts'[i] = attempts[i]]_vars

\* a right and a wrong attempt are stored and the client has logged out
\* since
C4_Witness ==
    /\ Len(attempts) = 2
    /\ \E i, j \in 1..2 : attempts[i].is_correct /\ ~attempts[j].is_correct
    /\ session["c1"] = 0
    /\ response.kind = "redirect"

\* C5: the history lists the user's attempts by timestamp descending, and
\* attempts of one timestamp by identifier descending.
C5_HistoryNewestFirst ==
    IsDashboard(response) =>
        LET items == response.body[2]
        IN  \A i, j \in 1..Len(items) :
                i < j =>
                    \/ items[i].timestamp > items[j].timestamp
                    \/ /\ items[i].timestamp = items[j].timestamp
                       /\ items[i].id > items[j].id

BindingsFor(graph) ==
    {i \in 1..Len(graph.namespaces) :
        graph.namespaces[i][1] \in {"", "None", "math-addition"}}

\* the IRIs the priority allows for a graph
Candidates(graph) ==
    IF BindingsFor(graph) # {}
    THEN {graph.namespaces[i][2] : i \in BindingsFor(graph)}
    ELSE IF graph.identifier # None /\ Len(graph.identifier) > 0
    THEN {graph.identifier}
    ELSE {DEFAULT_IRI}

\* C6: infer_base_iri returns a string ending in '#': the IRI of a binding
\* with the default or the math-addition prefix if there is one, else the
\* graph's identifier if it has one, else the default IRI; returned as it
\* is if it ends in '#', and with one '#' appended if not.
C6_BaseIri ==
    result # None =>
        /\ endswith(result, "#")
        /\ \E iri \in Candidates(args) :
               result = IF iri # <<>> /\ iri[Len(iri)] = "#"
                        THEN iri ELSE Append(iri, "#")

\* a default-prefix binding of x/ gave x/#, though the graph has an
\* identifier and an owl binding comes first
C6_Witness ==
    /\ result = <<"x", "/", "#">>
    /\ Len(args.namespaces) = 2
    /\ args.namespaces[1][1] = "owl"
    /\ args.namespaces[2] = <<"", <<"x", "/">> >>
    /\ args.identifier = <<"g">>

Invalid(form) ==
    \E k \in Keys : k \notin DOMAIN form \/ ~ParseInt(form[k]).ok

\* C7: a check-answer request with a missing or non-numeric operand or
\* answer is turned down as a validation failure of the user's, not a
\* server fault, and leaves the attempt table as it was.
C7_InvalidInputRejected ==
    [][\A c \in Clients, form \in ManyForms :
          (login_required(c) /\ Invalid(form) /\ CheckBegin(c, form)) =>
              /\ response'.kind = "error"
              /\ response'.status \in 400..499
              /\ pc'[c] = "idle"
              /\ attempts' = attempts]_vars

\* C8: under any interleaving, the table changes only by one request's
\* insert of one row at its end, each insert step adds its row, and the
\* new row's identifier is larger than every identifier committed before.
C8_AtomicIncreasingIds ==
    [][/\ \A c \in Clients :
             (pc[c] = "save" /\ pc'[c] = "annotate") =>
                 /\ Len(attempts') = Len(attempts) + 1
                 /\ attempts'[Len(attempts')].id = loc'[c].attempt_id
       /\ attempts' # attempts =>
             /\ Cardinality({c \in Clients : pc'[c] # pc[c]}) = 1
             /\ \E c \in Clients : pc[c] = "save" /\ pc'[c] = "annotate"
             /\ Len(attempts') = Len(attempts) + 1
             /\ \A i \in 1..Len(attempts) :
                    /\ attempts'[i] = attempts[i]
                    /\ attempts[i].id < attempts'[Len(attempts')].id]_vars

\* two users' requests in flight at once, both committed
C8_Witness ==
    /\ Len(attempts) = 2
    /\ attempts[1].user_id # attempts[2].user_id
    /\ attempts[1].id < attempts[2].id
    /\ pc["c1"] = "annotate"
    /\ pc["c2"] = "annotate"

type_term == <<"iri", RDF_type>>

Expressions(g) ==
    {t[1] : t \in {u \in g : /\ u[2] = type_term
                             /\ u[3] = MATH(ONTO_IRI, AdditionExpression)}}

\* what the expressions of g are linked to through hasAdded and hasResult
Linked(g) ==
    {t[3] : t \in {u \in g : /\ u[1] \in Expressions(g)
                             /\ u[2] \in {MATH(ONTO_IRI, hasAdded),
                                          MATH(ONTO_IRI, hasResult)}}}

Subjects(g) == {t[1] : t \in g}

\* one expression, linked to n Number instances for an n in counts, these
\* being all the instances, each typed Number and carrying a literal value
Shape(g, counts) ==
    /\ Cardinality(Expressions(g)) = 1
    /\ Cardinality(Linked(g)) \in counts
    /\ Subjects(g) = Expressions(g) \cup Linked(g)
    /\ Cardinality(Subjects(g)) = Cardinality(Linked(g)) + 1
    /\ \A n \in Linked(g) :
           /\ <<n, type_term, MATH(ONTO_IRI, Number)>> \in g
           /\ \E t \in g : /\ t[1] = n
                           /\ t[2] = MATH(ONTO_IRI, hasValue)
                           /\ t[3][1] = "lit"

\* C9: the record built for an attempt holds one AdditionExpression
\* instance linked to two or three distinct Number instances.
C9_TwoOrThreeNumbers ==
    \A c \in Clients : pc[c] = "serialize" => Shape(loc[c].g, {2, 3})

\* C9, amended: linked to one, two or three distinct Number instances.
C9_OneToThreeNumbers ==
    \A c \in Clients : pc[c] = "serialize" => Shape(loc[c].g, {1, 2, 3})

\* an attempt whose operands and answer are one value: one Number instance
C9_Witness ==
    \E c \in Clients :
        /\ pc[c] = "serialize"
        /\ loc[c].a = loc[c].b
        /\ loc[c].b = loc[c].student_ans
        /\ Cardinality(Linked(loc[c].g)) = 1

\* C10: the instance IRIs of two attempts with different identifiers are
\* disjoint whatever the values, and the same attempt annotated twice gives
\* the same triples.
C10_ScopedIris ==
    result # None =>
        /\ args[1].attempt_id # args[2].attempt_id =>
               Subjects(result[1]) \cap Subjects(result[2]) = {}
        /\ args[1] = args[2] => result[1] = result[2]

\* value 1 of attempt 12 beside value 11 of attempt 2
C10_Witness ==
    /\ result # None
    /\ args[1].attempt_id = 12
    /\ args[1].a = 1
    /\ args[2].attempt_id = 2
    /\ args[2].a = 11
    /\ Subjects(result[1]) # {}

=============================================================================
